---- MODULE Spec2Model ----
(***************************************************************************)
(* todo-board: the custom editor (host side) and its webview (render       *)
(* mirror).  The host owns the text document holding the serialized Board; *)
(* the webview holds a copy (`state`) and posts messages; the host handles *)
(* each message in an async handler that reads the document, changes the   *)
(* parsed Board, and replaces the document text through applyEdit + save.  *)
(*                                                                         *)
(* Strings are sequences of one-character strings.  The document text is a *)
(* sequence of characters and key tokens; JSON.stringify's indentation is  *)
(* left out of the text (it is fixed and carries no data).                 *)
(***************************************************************************)
EXTENDS Integers, Sequences, FiniteSets, TLC

\* ------------------------------------------------------------------ bounds
MaxClock == 2      \* Date.now() takes the values 1..MaxClock
MaxEvents == 2     \* messages posted plus outside edits in one run
MaxExternal == 1   \* outside edits in one run
MaxArrivals == 1   \* messages in one run of the host taken alone
MaxCards == 3      \* cards of the Boards that moveCard is tried on
MaxColumns == 3    \* columns of the Boards that one message is tried on
MaxOpens == 2      \* calls of openPreview
MaxTripColumns == 2  \* columns of the Boards that are serialized and parsed

\* ------------------------------------------------------------- JS values
\* An optional value is a sequence: <<>> is undefined, <<v>> is the value v.
Undefined == <<>>
Some(v) == <<v>>
\* null (the mirror's state before the first snapshot, no drag in progress)
Null == [null |-> TRUE]
\* what JSON.parse throws on malformed text
ParseError == [error |-> "SyntaxError"]
\* findIndex's result when nothing matches
NotFound == -1

Min(a, b) == IF a < b THEN a ELSE b
Max(a, b) == IF a > b THEN a ELSE b

RECURSIVE Flatten(_)
Flatten(ss) == IF ss = <<>> THEN <<>> ELSE Head(ss) \o Flatten(Tail(ss))

\* ------------------------------------------------------- strings and ids
UpperCase == <<"A","B","C","D","E","F","G","H","I","J","K","L","M",
               "N","O","P","Q","R","S","T","U","V","W","X","Y","Z">>
LowerCase == <<"a","b","c","d","e","f","g","h","i","j","k","l","m",
               "n","o","p","q","r","s","t","u","v","w","x","y","z">>
Digits == <<"0","1","2","3","4","5","6","7","8","9">>

RangeOf(s) == {s[i] : i \in 1..Len(s)}

\* String.prototype.toLowerCase, one character
toLowerCase(c) ==
    IF c \in RangeOf(UpperCase)
    THEN LowerCase[CHOOSE i \in 1..Len(UpperCase) : UpperCase[i] = c]
    ELSE c

\* title.toLowerCase().replace(/[^a-z0-9]/g, '-')
Slug(title) ==
    [i \in 1..Len(title) |->
        LET c == toLowerCase(title[i])
        IN IF c \in RangeOf(LowerCase) \cup RangeOf(Digits) THEN c ELSE "-"]

\* String(n) for a number; Date.now() is a non-negative integer
RECURSIVE NumberToString(_)
NumberToString(n) ==
    IF n < 10 THEN <<Digits[n + 1]>>
    ELSE NumberToString(n \div 10) \o <<Digits[(n % 10) + 1]>>

\* id of a column made by add-column at time now
ColumnId(title, now) == Slug(title) \o <<"-">> \o NumberToString(now)

\* id of a card made by add-card at time now
CardId(now) == <<"c","a","r","d","-">> \o NumberToString(now)

\* String.prototype.trim, for the blank character " "
RECURSIVE TrimLeft(_)
TrimLeft(s) == IF s # <<>> /\ Head(s) = " " THEN TrimLeft(Tail(s)) ELSE s

RECURSIVE TrimRight(_)
TrimRight(s) ==
    IF s # <<>> /\ s[Len(s)] = " " THEN TrimRight(SubSeq(s, 1, Len(s) - 1)) ELSE s

Trim(s) == TrimRight(TrimLeft(s))

\* ------------------------------------------------------------ Board data
Card(id, title) == [id |-> id, title |-> title]
Column(id, title, cards) == [id |-> id, title |-> title, cards |-> cards]
Board(columns) == [columns |-> columns]

\* Array.prototype.findIndex on the id field: 0-based, -1 when absent
RECURSIVE FindIndexFrom(_, _, _)
FindIndexFrom(items, id, i) ==
    IF i > Len(items) THEN NotFound
    ELSE IF items[i].id = id THEN i - 1
    ELSE FindIndexFrom(items, id, i + 1)

FindIndex(items, id) == FindIndexFrom(items, id, 1)

\* Array.prototype.splice(index, 1): the array without the element at index
RemoveAt(items, index) ==
    SubSeq(items, 1, index) \o SubSeq(items, index + 2, Len(items))

\* Array.prototype.splice(index, 0, item): a negative index counts from the
\* end, and the index is clamped to 0..length
InsertAt(items, index, item) ==
    LET k == IF index < 0 THEN Max(Len(items) + index, 0)
             ELSE Min(index, Len(items))
    IN SubSeq(items, 1, k) \o <<item>> \o SubSeq(items, k + 1, Len(items))

CardsOf(board) == Flatten([i \in 1..Len(board.columns) |-> board.columns[i].cards])
CardCount(board) == Len(CardsOf(board))
ColumnIds(board) == [i \in 1..Len(board.columns) |-> board.columns[i].id]

\* ------------------------------------------- JSON.stringify / JSON.parse
Quote == "\""
KeyColumns == "\"columns\":"
KeyId == "\"id\":"
KeyTitle == "\"title\":"
KeyCards == "\"cards\":"
Keys == {KeyColumns, KeyId, KeyTitle, KeyCards}

Backslash == "\\"

\* JSON.stringify of a string escapes the quote and the backslash
RECURSIVE Escape(_)
Escape(s) ==
    IF s = <<>> THEN <<>>
    ELSE IF Head(s) \in {Quote, Backslash}
         THEN <<Backslash, Head(s)>> \o Escape(Tail(s))
         ELSE <<Head(s)>> \o Escape(Tail(s))

StringifyStringUnescaped(s) == <<Quote>> \o s \o <<Quote>>

StringifyString(s) == <<Quote>> \o Escape(s) \o <<Quote>>

RECURSIVE Join(_)
Join(parts) ==
    IF parts = <<>> THEN <<>>
    ELSE IF Len(parts) = 1 THEN Head(parts)
    ELSE Head(parts) \o <<",">> \o Join(Tail(parts))

StringifyCard(card) ==
    <<"{", KeyId>> \o StringifyString(card.id) \o
    <<",", KeyTitle>> \o StringifyString(card.title) \o <<"}">>

StringifyCards(cards) ==
    <<"[">> \o Join([i \in 1..Len(cards) |-> StringifyCard(cards[i])]) \o <<"]">>

StringifyColumn(col) ==
    <<"{", KeyId>> \o StringifyString(col.id) \o
    <<",", KeyTitle>> \o StringifyString(col.title) \o
    <<",", KeyCards>> \o StringifyCards(col.cards) \o <<"}">>

\* JSON.stringify(data, null, 2)
Stringify(board) ==
    <<"{", KeyColumns, "[">> \o
    Join([i \in 1..Len(board.columns) |-> StringifyColumn(board.columns[i])]) \o
    <<"]", "}">>

\* A parse step yields the value read and the text left, or fails.  Each
\* step's result is bound once (c \in {step}) and then used.
Failed == [ok |-> FALSE]
Parsed(val, rest) == [ok |-> TRUE, val |-> val, rest |-> rest]
Starts(text, tok) == text # <<>> /\ Head(text) = tok
Drop2(text) == SubSeq(text, 3, Len(text))

\* the characters of a string up to its closing quote: a backslash makes
\* the character after it an ordinary one
RECURSIVE ParseChars(_, _)
ParseChars(text, acc) ==
    IF text = <<>> THEN Failed
    ELSE IF Head(text) = Quote THEN Parsed(acc, Tail(text))
    ELSE IF Head(text) \in Keys THEN Failed
    ELSE IF Head(text) = Backslash
         THEN IF Len(text) < 2 \/ text[2] \notin {Quote, Backslash} THEN Failed
              ELSE ParseChars(SubSeq(text, 3, Len(text)), Append(acc, text[2]))
    ELSE ParseChars(Tail(text), Append(acc, Head(text)))

\* a string: the opening quote, characters, the closing quote
ParseString(text) ==
    IF ~Starts(text, Quote) THEN Failed
    ELSE ParseChars(Tail(text), <<>>)

\* "{" "id": string "," "title": string, the fields every entity starts with
ParseIdTitle(text) ==
    IF ~(Starts(text, "{") /\ Starts(Tail(text), KeyId)) THEN Failed
    ELSE CHOOSE r \in
           {IF ~(id.ok /\ Starts(id.rest, ",") /\ Starts(Tail(id.rest), KeyTitle))
            THEN Failed
            ELSE CHOOSE q \in
                   {IF ~title.ok THEN Failed
                    ELSE Parsed([id |-> id.val, title |-> title.val], title.rest)
                    : title \in {ParseString(Drop2(id.rest))}} : TRUE
            : id \in {ParseString(Drop2(text))}} : TRUE

ParseCard(text) ==
    CHOOSE r \in
      {IF head.ok /\ Starts(head.rest, "}")
       THEN Parsed(head.val, Tail(head.rest))
       ELSE Failed
       : head \in {ParseIdTitle(text)}} : TRUE

\* the elements after "[", up to and including "]"
RECURSIVE ParseCardsTail(_, _)
ParseCardsTail(text, acc) ==
    CHOOSE r \in
      {IF ~card.ok THEN Failed
       ELSE IF Starts(card.rest, "]")
            THEN Parsed(Append(acc, card.val), Tail(card.rest))
       ELSE IF Starts(card.rest, ",")
            THEN ParseCardsTail(Tail(card.rest), Append(acc, card.val))
       ELSE Failed
       : card \in {ParseCard(text)}} : TRUE

ParseCards(text) ==
    IF ~Starts(text, "[") THEN Failed
    ELSE IF Starts(Tail(text), "]") THEN Parsed(<<>>, Drop2(text))
    ELSE ParseCardsTail(Tail(text), <<>>)

ParseColumn(text) ==
    CHOOSE r \in
      {IF ~(head.ok /\ Starts(head.rest, ",") /\ Starts(Tail(head.rest), KeyCards))
       THEN Failed
       ELSE CHOOSE q \in
              {IF cards.ok /\ Starts(cards.rest, "}")
               THEN Parsed(Column(head.val.id, head.val.title, cards.val),
                           Tail(cards.rest))
               ELSE Failed
               : cards \in {ParseCards(Drop2(head.rest))}} : TRUE
       : head \in {ParseIdTitle(text)}} : TRUE

RECURSIVE ParseColumnsTail(_, _)
ParseColumnsTail(text, acc) ==
    CHOOSE r \in
      {IF ~col.ok THEN Failed
       ELSE IF Starts(col.rest, "]")
            THEN Parsed(Append(acc, col.val), Tail(col.rest))
       ELSE IF Starts(col.rest, ",")
            THEN ParseColumnsTail(Tail(col.rest), Append(acc, col.val))
       ELSE Failed
       : col \in {ParseColumn(text)}} : TRUE

ParseColumns(text) ==
    IF ~Starts(text, "[") THEN Failed
    ELSE IF Starts(Tail(text), "]") THEN Parsed(<<>>, Drop2(text))
    ELSE ParseColumnsTail(Tail(text), <<>>)

\* JSON.parse(text): the Board, or ParseError when the text is not the
\* serialization of a Board (text after the closing brace is an error too)
Parse(text) ==
    IF ~(Starts(text, "{") /\ Starts(Tail(text), KeyColumns)) THEN ParseError
    ELSE CHOOSE r \in
           {IF cols.ok /\ cols.rest = <<"}">> THEN Board(cols.val) ELSE ParseError
            : cols \in {ParseColumns(Drop2(text))}} : TRUE

\* ------------------------------------------------- webview: moveCard
\* moveCard(fromId, toId, cardId, toIndex) on the mirror's state; toIndex is
\* optional.  The result is the state it leaves and whether it threw (a
\* column that does not resolve is undefined, and reading its cards throws a
\* TypeError).
moveCardNoShift(st, fromId, toId, cardId, toIndex) ==
    LET fromCol == FindIndex(st.columns, fromId) + 1
        toCol == FindIndex(st.columns, toId) + 1
    IN IF fromCol = 0 THEN [state |-> st, threw |-> TRUE]
       ELSE
       LET fromIdx == FindIndex(st.columns[fromCol].cards, cardId)
       IN IF fromIdx = NotFound THEN [state |-> st, threw |-> FALSE]
          ELSE
          LET card == st.columns[fromCol].cards[fromIdx + 1]
              removed == [st EXCEPT !.columns[fromCol].cards = RemoveAt(@, fromIdx)]
          IN IF toCol = 0 THEN [state |-> removed, threw |-> TRUE]
             ELSE
             LET index == IF toIndex = Undefined
                          THEN Len(removed.columns[toCol].cards)
                          ELSE toIndex[1]
             IN [state |-> [removed EXCEPT !.columns[toCol].cards =
                                InsertAt(@, index, card)],
                 threw |-> FALSE]

moveCardPush(st, fromId, toId, cardId, toIndex) ==
    LET fromCol == FindIndex(st.columns, fromId) + 1
        toCol == FindIndex(st.columns, toId) + 1
    IN IF fromId = toId THEN [state |-> st, threw |-> FALSE]
       ELSE IF fromCol = 0 THEN [state |-> st, threw |-> TRUE]
       ELSE
       LET index == FindIndex(st.columns[fromCol].cards, cardId)
       IN IF index = NotFound THEN [state |-> st, threw |-> FALSE]
          ELSE
          LET card == st.columns[fromCol].cards[index + 1]
              removed == [st EXCEPT !.columns[fromCol].cards = RemoveAt(@, index)]
          IN IF toCol = 0 THEN [state |-> removed, threw |-> TRUE]
             ELSE [state |-> [removed EXCEPT !.columns[toCol].cards =
                                 Append(@, card)],
                   threw |-> FALSE]

moveCardDefaultFront(st, fromId, toId, cardId, toIndex) ==
    LET fromCol == FindIndex(st.columns, fromId) + 1
        toCol == FindIndex(st.columns, toId) + 1
    IN IF fromCol = 0 THEN [state |-> st, threw |-> TRUE]
       ELSE
       LET fromIdx == FindIndex(st.columns[fromCol].cards, cardId)
       IN IF fromIdx = NotFound THEN [state |-> st, threw |-> FALSE]
          ELSE
          LET card == st.columns[fromCol].cards[fromIdx + 1]
              removed == [st EXCEPT !.columns[fromCol].cards = RemoveAt(@, fromIdx)]
              finalIndex == IF fromId = toId /\ toIndex # Undefined
                               /\ fromIdx < toIndex[1]
                            THEN Some(toIndex[1] - 1)
                            ELSE toIndex
          IN IF toCol = 0 THEN [state |-> removed, threw |-> TRUE]
             ELSE
             LET index == IF finalIndex = Undefined
                          THEN 0
                          ELSE finalIndex[1]
             IN [state |-> [removed EXCEPT !.columns[toCol].cards =
                                InsertAt(@, index, card)],
                 threw |-> FALSE]

moveCard(st, fromId, toId, cardId, toIndex) ==
    LET fromCol == FindIndex(st.columns, fromId) + 1
        toCol == FindIndex(st.columns, toId) + 1
    IN IF fromCol = 0 THEN [state |-> st, threw |-> TRUE]
       ELSE
       LET fromIdx == FindIndex(st.columns[fromCol].cards, cardId)
       IN IF fromIdx = NotFound THEN [state |-> st, threw |-> FALSE]
          ELSE
          LET card == st.columns[fromCol].cards[fromIdx + 1]
              removed == [st EXCEPT !.columns[fromCol].cards = RemoveAt(@, fromIdx)]
              finalIndex == IF fromId = toId /\ toIndex # Undefined
                               /\ fromIdx < toIndex[1]
                            THEN Some(toIndex[1] - 1)
                            ELSE toIndex
          IN IF toCol = 0 THEN [state |-> removed, threw |-> TRUE]
             ELSE
             LET index == IF finalIndex = Undefined
                          THEN Len(removed.columns[toCol].cards)
                          ELSE finalIndex[1]
             IN [state |-> [removed EXCEPT !.columns[toCol].cards =
                                InsertAt(@, index, card)],
                 threw |-> FALSE]

\* ------------------------------------------------------------ state
VARIABLES
    document,     \* host: text of the TextDocument backing the board
    version,      \* host: TextDocument.version, raised by every change
    now,          \* host: the latest value Date.now() returned
    inbox,        \* messages posted by the webview, not yet handled
    prompts,      \* handlers suspended in showInputBox
    edits,        \* applyEdit calls the host has not answered yet
    saves,        \* document.save() calls made so far
    toWebview,    \* snapshots posted by sendData, not yet received
    state,        \* webview: the mirror's Board
    seen,         \* webview: document version of the snapshot in state
    dragged,      \* webview: the card or column being dragged
    draggedType,  \* webview: "card", "column" or "null"
    fromColumn,   \* webview: id of the column the dragged card came from
    dragging,     \* webview: place of the card element of class 'dragging'
    posts,        \* messages posted so far
    externals,    \* outside edits made so far
    preview,      \* the board file on disk, the openPreview calls under
                  \* way and whether the editor has been resolved
    last          \* the step taken last, and what it did

vars == <<document, version, now, inbox, prompts, edits, saves,
          toWebview, state, seen, dragged, draggedType, fromColumn, dragging,
          posts, externals, preview, last>>


\* `last` after a step that no property asks about
Other == [op |-> "other"]

\* null where an id is expected: no id equals it
NullId == <<"null">>

\* ----------------------------------------------------- the Boards used
\* the Board of a file that exists already: columns a = [c1 X, c2 Y], b = []
SampleBoard ==
    Board(<<Column(<<"a">>, <<"A">>,
                   <<Card(<<"c","1">>, <<"X">>), Card(<<"c","2">>, <<"Y">>)>>),
            Column(<<"b">>, <<"B">>, <<>>)>>)

\* createBoard's initialTodo
initialTodo ==
    Board(<<Column(<<"t","o","d","o">>, <<"T","o"," ","D","o">>, <<>>),
            Column(<<"d","o","i","n","g">>, <<"D","o","i","n","g">>, <<>>),
            Column(<<"d","o","n","e">>, <<"D","o","n","e">>, <<>>)>>)

\* ------------------------------------------------- host: sendData
\* sendData(): post the parsed document; a text that does not parse posts
\* nothing.  The snapshot is stamped with the document version it was read at.
sendData(text, ver, queue) ==
    IF Parse(text) = ParseError THEN queue
    ELSE Append(queue, [data |-> Parse(text), version |-> ver])

\* ------------------------------------- host: the branches of the handler
\* Each branch yields the data it leaves and whether it set dirty.
Clean(data) == [data |-> data, dirty |-> FALSE]
Dirty(data) == [data |-> data, dirty |-> TRUE]
\* dirty, having created the entity with this id
Created(data, id) == [data |-> data, dirty |-> TRUE, created |-> id]

updateKeepingNewCards(data, msg) ==
    LET known == RangeOf(CardsOf(msg.data))
        cols == msg.data.columns
        IsNew(c) == c \notin known
        extra(i) == IF i <= Len(data.columns)
                    THEN SelectSeq(data.columns[i].cards, IsNew)
                    ELSE <<>>
    IN Dirty(Board([i \in 1..Len(cols) |->
                      Column(cols[i].id, cols[i].title, cols[i].cards \o extra(i))]))

update(data, msg) == Dirty(msg.data)

deleteColumnUnchecked(data, msg) ==
    LET index == FindIndex(data.columns, msg.columnId)
    IN IF index # NotFound
       THEN Dirty([data EXCEPT !.columns = RemoveAt(@, index)])
       ELSE Dirty(data)

deleteColumnToEnd(data, msg) ==
    LET index == FindIndex(data.columns, msg.columnId)
    IN IF index # NotFound
       THEN Dirty([data EXCEPT !.columns = SubSeq(@, 1, index)])
       ELSE Clean(data)

deleteColumn(data, msg) ==
    LET index == FindIndex(data.columns, msg.columnId)
    IN IF index # NotFound
       THEN Dirty([data EXCEPT !.columns = RemoveAt(@, index)])
       ELSE Clean(data)

renameColumnAndId(data, msg) ==
    LET col == FindIndex(data.columns, msg.columnId) + 1
    IN IF col # 0
       THEN Dirty([data EXCEPT !.columns[col].title = msg.newTitle,
                               !.columns[col].id = Slug(msg.newTitle)])
       ELSE Clean(data)

renameColumn(data, msg) ==
    LET col == FindIndex(data.columns, msg.columnId) + 1
    IN IF col # 0
       THEN Dirty([data EXCEPT !.columns[col].title = msg.newTitle])
       ELSE Clean(data)

deleteCardToEnd(data, msg) ==
    LET col == FindIndex(data.columns, msg.columnId) + 1
    IN IF col = 0 THEN Clean(data)
       ELSE LET idx == FindIndex(data.columns[col].cards, msg.cardId)
            IN IF idx # NotFound
               THEN Dirty([data EXCEPT !.columns[col].cards = SubSeq(@, 1, idx)])
               ELSE Clean(data)

deleteCard(data, msg) ==
    LET col == FindIndex(data.columns, msg.columnId) + 1
    IN IF col = 0 THEN Clean(data)
       ELSE LET idx == FindIndex(data.columns[col].cards, msg.cardId)
            IN IF idx # NotFound
               THEN Dirty([data EXCEPT !.columns[col].cards = RemoveAt(@, idx)])
               ELSE Clean(data)

moveColumnAnyIndex(data, msg) ==
    LET fromIndex == FindIndex(data.columns, msg.fromId)
        toIndex == FindIndex(data.columns, msg.toId)
    IN IF fromIndex # NotFound /\ toIndex # NotFound
       THEN Dirty([data EXCEPT !.columns =
                      InsertAt(RemoveAt(@, fromIndex), toIndex, @[fromIndex + 1])])
       ELSE Clean(data)

moveColumnShifted(data, msg) ==
    LET fromIndex == FindIndex(data.columns, msg.fromId)
        toIndex == FindIndex(data.columns, msg.toId)
    IN IF fromIndex # NotFound /\ toIndex # NotFound /\ fromIndex # toIndex
       THEN Dirty([data EXCEPT !.columns =
                      InsertAt(RemoveAt(@, fromIndex),
                               IF fromIndex < toIndex THEN toIndex - 1 ELSE toIndex,
                               @[fromIndex + 1])])
       ELSE Clean(data)

moveColumn(data, msg) ==
    LET fromIndex == FindIndex(data.columns, msg.fromId)
        toIndex == FindIndex(data.columns, msg.toId)
    IN IF fromIndex # NotFound /\ toIndex # NotFound /\ fromIndex # toIndex
       THEN Dirty([data EXCEPT !.columns =
                      InsertAt(RemoveAt(@, fromIndex), toIndex, @[fromIndex + 1])])
       ELSE Clean(data)

\* if (title): undefined and the empty string are falsy
TruthyOrEmpty(title) == title # Undefined

Truthy(title) == title # Undefined /\ title[1] # <<>>

\* add-column after the prompt answered title (an optional string) at time t
addColumnFirst(data, msg, title, t) ==
    IF Truthy(title)
    THEN Created([data EXCEPT !.columns =
                     <<Column(ColumnId(title[1], t), title[1], <<>>)>> \o @],
                 ColumnId(title[1], t))
    ELSE Clean(data)

addColumn(data, msg, title, t) ==
    IF Truthy(title)
    THEN Created([data EXCEPT !.columns =
                     Append(@, Column(ColumnId(title[1], t), title[1], <<>>))],
                 ColumnId(title[1], t))
    ELSE Clean(data)

addCardFirst(data, msg, title, t) ==
    LET col == FindIndex(data.columns, msg.columnId) + 1
    IN IF Truthy(title) /\ col # 0
       THEN Created([data EXCEPT !.columns[col].cards =
                        <<Card(CardId(t), title[1])>> \o @],
                    CardId(t))
       ELSE Clean(data)

\* add-card after the prompt answered title at time t
addCard(data, msg, title, t) ==
    LET col == FindIndex(data.columns, msg.columnId) + 1
    IN IF Truthy(title) /\ col # 0
       THEN Created([data EXCEPT !.columns[col].cards =
                        Append(@, Card(CardId(t), title[1]))],
                    CardId(t))
       ELSE Clean(data)

\* The branch of a message that needs no prompt.
Handle(data, msg) ==
    CASE msg.type = "update" -> update(data, msg)
      [] msg.type = "delete-column" -> deleteColumn(data, msg)
      [] msg.type = "rename-column" -> renameColumn(data, msg)
      [] msg.type = "delete-card" -> deleteCard(data, msg)
      [] msg.type = "move-column" -> moveColumn(data, msg)
      [] OTHER -> Clean(data)

\* The branch of add-column / add-card once the prompt has answered.
HandlePrompted(data, msg, title, t) ==
    IF msg.type = "add-column" THEN addColumn(data, msg, title, t)
    ELSE addCard(data, msg, title, t)

Prompting(msg) == msg.type \in {"add-column", "add-card"}

\* document.positionAt(offset): an offset past the end is the end
positionAt(text, offset) == Min(offset, Len(text))

\* The WorkspaceEdit of the dirty write, as handed to applyEdit: it replaces
\* [0, positionAt(currentText.length)) of the document by the new text.  The
\* host applies an edit only to the document version it was made for.  The
\* edit is stamped with the version of the text its handler read.
WorkspaceEdit(msg, currentText, readVersion, data) ==
    [end |-> positionAt(document, Len(currentText)),
     text |-> Stringify(data),
     docVersion |-> version,
     readVersion |-> readVersion,
     msg |-> msg]

\* the text after an edit is applied
Replaced(text, edit) ==
    edit.text \o SubSeq(text, positionAt(text, edit.end) + 1, Len(text))

\* ------------------------------------------------ host: the handler
\* onDidReceiveMessage, up to its first await: a text that does not parse
\* ends the handler; add-column and add-card suspend in showInputBox; every
\* other message runs its branch and, when dirty, calls applyEdit.
ReceiveIgnoringParseError(msg) ==
    LET parsed == Parse(document)
        data == IF parsed = ParseError THEN Board(<<>>) ELSE parsed
    IN /\ inbox' = Tail(inbox)
       /\ IF Prompting(msg)
          THEN /\ prompts' = Append(prompts, [msg |-> msg, currentText |-> document,
                                              readVersion |-> version,
                                              data |-> data])
               /\ edits' = edits
               /\ last' = [op |-> "message", msg |-> msg, type |-> msg.type, parsed |-> TRUE,
                           dirty |-> FALSE]
          ELSE LET r == Handle(data, msg)
               IN /\ prompts' = prompts
                  /\ edits' = IF r.dirty
                              THEN Append(edits, WorkspaceEdit(msg, document, version, r.data))
                              ELSE edits
                  /\ last' = [op |-> "message", msg |-> msg, type |-> msg.type, parsed |-> TRUE,
                              dirty |-> r.dirty]

Receive(msg) ==
    LET data == Parse(document)
    IN /\ inbox' = Tail(inbox)
       /\ IF data = ParseError
          THEN /\ UNCHANGED <<prompts, edits>>
               /\ last' = [op |-> "message", msg |-> msg, type |-> msg.type, parsed |-> FALSE,
                           dirty |-> FALSE]
          ELSE IF Prompting(msg)
          THEN /\ prompts' = Append(prompts, [msg |-> msg, currentText |-> document,
                                              readVersion |-> version,
                                              data |-> data])
               /\ edits' = edits
               /\ last' = [op |-> "message", msg |-> msg, type |-> msg.type, parsed |-> TRUE,
                           dirty |-> FALSE]
          ELSE LET r == Handle(data, msg)
               IN /\ prompts' = prompts
                  /\ edits' = IF r.dirty
                              THEN Append(edits, WorkspaceEdit(msg, document, version, r.data))
                              ELSE edits
                  /\ last' = [op |-> "message", msg |-> msg, type |-> msg.type, parsed |-> TRUE,
                              dirty |-> r.dirty]

OnDidReceiveMessageClosingPrompts ==
    /\ inbox # <<>>
    /\ IF prompts # <<>> /\ Parse(document) # ParseError /\ ~Prompting(Head(inbox))
       THEN \E r \in {Handle(Parse(document), Head(inbox))} :
              /\ inbox' = Tail(inbox)
              /\ prompts' = <<>>
              /\ edits' = IF r.dirty
                          THEN Append(edits, WorkspaceEdit(Head(inbox), document,
                                                           version, r.data))
                          ELSE edits
              /\ last' = [op |-> "message", msg |-> Head(inbox),
                          type |-> Head(inbox).type, parsed |-> TRUE,
                          dirty |-> r.dirty]
       ELSE Receive(Head(inbox))
    /\ UNCHANGED <<preview, document, version, now, saves, toWebview, state, seen,
                   dragged, draggedType, fromColumn, dragging, posts, externals>>

OnDidReceiveMessageUntilFailure ==
    /\ inbox # <<>>
    /\ IF saves + externals + 1 = version
       THEN Receive(Head(inbox))
       ELSE /\ inbox' = Tail(inbox)
            /\ UNCHANGED <<prompts, edits>>
            /\ last' = [op |-> "message", msg |-> Head(inbox),
                        type |-> Head(inbox).type, parsed |-> FALSE,
                        dirty |-> FALSE]
    /\ UNCHANGED <<preview, document, version, now, saves, toWebview, state, seen,
                   dragged, draggedType, fromColumn, dragging, posts, externals>>

OnDidReceiveMessage ==
    /\ inbox # <<>>
    /\ Receive(Head(inbox))
    /\ UNCHANGED <<preview, document, version, now, saves, toWebview, state, seen,
                   dragged, draggedType, fromColumn, dragging, posts, externals>>

\* what the prompt of showInputBox can answer: undefined (cancelled), the
\* empty string, or a title
PromptAnswers == {Undefined, Some(<<>>), Some(<<"N","!">>)}

\* The handler resumes from showInputBox with the answer, at a time t that
\* is not before the last time read: the branch runs on the data parsed
\* before the prompt; when it created something it calls sendData() and then
\* makes the dirty write.
Resume(h, title, t) ==
    LET r == HandlePrompted(h.data, h.msg, title, t)
    IN /\ toWebview' = IF r.dirty THEN sendData(document, version, toWebview)
                       ELSE toWebview
       /\ edits' = IF r.dirty
                   THEN Append(edits, WorkspaceEdit(h.msg, h.currentText, h.readVersion, r.data))
                   ELSE edits
       /\ last' = [op |-> "prompt", type |-> h.msg.type, title |-> title,
                   dirty |-> r.dirty,
                   created |-> IF r.dirty THEN Some(r.created) ELSE Undefined,
                   sent |-> IF r.dirty /\ Parse(document) # ParseError
                            THEN Some(Parse(document)) ELSE Undefined]

PromptAnswered ==
    \E i \in 1..Len(prompts), title \in PromptAnswers,
       t \in now..Min(now + 1, MaxClock) :
        /\ Truthy(title) \/ t = now
        /\ Resume(prompts[i], title, t)
        /\ now' = t
        /\ prompts' = RemoveAt(prompts, i - 1)
        /\ UNCHANGED <<preview, document, version, inbox, saves, state, seen,
                       dragged, draggedType, fromColumn, dragging, posts, externals>>

\* The host answers the oldest applyEdit: the edit was made for the current
\* document version and is applied (onDidChangeTextDocument then calls
\* sendData), and the handler calls document.save().
ApplyEdit ==
    /\ edits # <<>>
    /\ Head(edits).docVersion = version
    /\ document' = Replaced(document, Head(edits))
    /\ version' = version + 1
    /\ toWebview' = sendData(document', version', toWebview)
    /\ edits' = Tail(edits)
    /\ saves' = saves + 1
    /\ last' = [op |-> "applied", type |-> Head(edits).msg.type]
    /\ UNCHANGED <<preview, now, inbox, prompts, state, seen, dragged, draggedType,
                   fromColumn, dragging, posts, externals>>

\* The host answers the oldest applyEdit with false: nothing is applied (the
\* document changed since the edit was made, or the write failed).  The
\* handler does not look at the answer, reports nothing and goes on to
\* document.save().
ApplyEditFails ==
    /\ edits # <<>>
    /\ edits' = Tail(edits)
    /\ saves' = saves + 1
    /\ last' = [op |-> "refused", type |-> Head(edits).msg.type, reports |-> 0]
    /\ UNCHANGED <<preview, document, version, now, inbox, prompts, toWebview,
                   state, seen, dragged, draggedType, fromColumn, dragging, posts,
                   externals>>

\* ------------------------------------------------ outside edits
ExternalCard == Card(<<"x">>, <<"E">>)

\* Texts an outside editor (a person, a tool) leaves in the document: the
\* Board with one more card in its first column, or the text cut short
\* (which does not parse).
ExternalTexts ==
    LET board == Parse(document)
    IN {SubSeq(document, 1, Len(document) - 1)}
       \cup (IF board # ParseError /\ board.columns # <<>>
             THEN {Stringify([board EXCEPT !.columns[1].cards =
                                  Append(@, ExternalCard)])}
             ELSE {})

\* onDidChangeTextDocument for a change made outside: sendData().
ExternalEdit ==
    /\ externals < MaxExternal
    /\ posts + externals < MaxEvents
    /\ \E text \in ExternalTexts :
        /\ text # document
        /\ document' = text
    /\ version' = version + 1
    /\ toWebview' = sendData(document', version', toWebview)
    /\ externals' = externals + 1
    /\ last' = [op |-> "external"]
    /\ UNCHANGED <<preview, now, inbox, prompts, edits, saves, state, seen, dragged,
                   draggedType, fromColumn, dragging, posts>>

\* ------------------------------------------------ webview
\* window "message" listener: state = e.data.data; render().  render()
\* rebuilds every element, so no element has the class 'dragging' after it.
OnMessageKeepingState ==
    /\ toWebview # <<>>
    /\ state' = IF state = Null THEN Head(toWebview).data ELSE state
    /\ seen' = Head(toWebview).version
    /\ dragging' = <<>>
    /\ toWebview' = Tail(toWebview)
    /\ last' = [op |-> "snapshot"]
    /\ UNCHANGED <<preview, document, version, now, inbox, prompts, edits, saves,
                   dragged, draggedType, fromColumn, posts, externals>>

OnMessage ==
    /\ toWebview # <<>>
    /\ state' = Head(toWebview).data
    /\ seen' = Head(toWebview).version
    /\ dragging' = <<>>
    /\ toWebview' = Tail(toWebview)
    /\ last' = [op |-> "snapshot"]
    /\ UNCHANGED <<preview, document, version, now, inbox, prompts, edits, saves,
                   dragged, draggedType, fromColumn, posts, externals>>

\* vscode.postMessage(msg), stamped with the document version the mirror has
\* seen
PostMessage(msg) ==
    /\ posts + externals < MaxEvents
    /\ inbox' = Append(inbox, msg)
    /\ posts' = posts + 1

Rendered == state # Null

\* deleteBtn.onclick of column i
ClickDeleteColumn ==
    /\ Rendered
    /\ \E i \in 1..Len(state.columns) :
        /\ PostMessage([type |-> "delete-column", columnId |-> state.columns[i].id,
                        seen |-> seen])
        /\ last' = Other
    /\ UNCHANGED <<preview, document, version, now, prompts, edits, saves,
                   toWebview, state, seen, dragged, draggedType, fromColumn,
                   dragging, externals>>

\* delBtn.onclick of card k of column i
ClickDeleteCard ==
    /\ Rendered
    /\ \E i \in 1..Len(state.columns) :
       \E k \in 1..Len(state.columns[i].cards) :
        /\ PostMessage([type |-> "delete-card", columnId |-> state.columns[i].id,
                        cardId |-> state.columns[i].cards[k].id, seen |-> seen])
        /\ last' = Other
    /\ UNCHANGED <<preview, document, version, now, prompts, edits, saves,
                   toWebview, state, seen, dragged, draggedType, fromColumn,
                   dragging, externals>>

\* addColBtn.onclick
ClickAddColumn ==
    /\ Rendered
    /\ PostMessage([type |-> "add-column", seen |-> seen])
    /\ last' = Other
    /\ UNCHANGED <<preview, document, version, now, prompts, edits, saves,
                   toWebview, state, seen, dragged, draggedType, fromColumn,
                   dragging, externals>>

\* addCardBtn.onclick: the button exists in the first column only
ClickAddCard ==
    /\ Rendered
    /\ state.columns # <<>>
    /\ PostMessage([type |-> "add-card", columnId |-> state.columns[1].id,
                    seen |-> seen])
    /\ last' = Other
    /\ UNCHANGED <<preview, document, version, now, prompts, edits, saves,
                   toWebview, state, seen, dragged, draggedType, fromColumn,
                   dragging, externals>>

\* what the user leaves in a column's title element
TypedTitles == {<<" ">>, <<" ","Q"," ">>}

\* saveRename of column i: post the trimmed title when it is not blank and
\* differs from the column's title, otherwise put the old title back
saveRenameUntrimmed ==
    /\ Rendered
    /\ \E i \in 1..Len(state.columns), typed \in TypedTitles :
        /\ IF typed # <<>> /\ typed # state.columns[i].title
           THEN PostMessage([type |-> "rename-column",
                             columnId |-> state.columns[i].id,
                             newTitle |-> typed, seen |-> seen])
           ELSE UNCHANGED <<inbox, posts>>
        /\ last' = [op |-> "rename", typed |-> typed]
    /\ UNCHANGED <<preview, document, version, now, prompts, edits, saves,
                   toWebview, state, seen, dragged, draggedType, fromColumn,
                   dragging, externals>>

saveRename ==
    /\ Rendered
    /\ \E i \in 1..Len(state.columns), typed \in TypedTitles :
        LET newTitle == Trim(typed)
        IN /\ IF newTitle # <<>> /\ newTitle # state.columns[i].title
              THEN PostMessage([type |-> "rename-column",
                                columnId |-> state.columns[i].id,
                                newTitle |-> newTitle, seen |-> seen])
              ELSE UNCHANGED <<inbox, posts>>
           /\ last' = [op |-> "rename", typed |-> typed]
    /\ UNCHANGED <<preview, document, version, now, prompts, edits, saves,
                   toWebview, state, seen, dragged, draggedType, fromColumn,
                   dragging, externals>>

\* ------------------------------------------------ webview: drag and drop
\* el.ondragstart of card k of column i
CardDragStart ==
    /\ Rendered
    /\ dragged = Null
    /\ posts + externals < MaxEvents
    /\ \E i \in 1..Len(state.columns) :
       \E k \in 1..Len(state.columns[i].cards) :
        /\ dragged' = state.columns[i].cards[k]
        /\ draggedType' = "card"
        /\ fromColumn' = state.columns[i].id
        /\ dragging' = <<i, k>>
    /\ last' = Other
    /\ UNCHANGED <<preview, document, version, now, inbox, prompts, edits, saves,
                   toWebview, state, seen, posts, externals>>

\* column.ondragstart of column i (a drag that starts on a card never gets
\* here: the card's handler stops the event)
ColumnDragStart ==
    /\ Rendered
    /\ dragged = Null
    /\ posts + externals < MaxEvents
    /\ \E i \in 1..Len(state.columns) :
        /\ dragged' = state.columns[i]
        /\ draggedType' = "column"
    /\ last' = Other
    /\ UNCHANGED <<preview, document, version, now, inbox, prompts, edits, saves,
                   toWebview, state, seen, fromColumn, dragging, posts, externals>>

\* el.ondragend takes the class away, and column.ondragend (the event
\* bubbles to it) clears dragged and draggedType
DragEnd ==
    /\ dragged # Null
    /\ dragged' = Null
    /\ draggedType' = "null"
    /\ dragging' = <<>>
    /\ last' = Other
    /\ UNCHANGED <<preview, document, version, now, inbox, prompts, edits, saves,
                   toWebview, state, seen, fromColumn, posts, externals>>

\* The cards of column i are laid out top to bottom: the center of card k is
\* at 2k, and a drop point y lies in 0 .. 2n+1.
CenterOf(k) == 2 * k
DropPoints(n) == 0..(2 * n + 1)

\* getDragAfterElement(container, y): reduce over the cards of the container
\* that are not of class 'dragging', keeping the one with the greatest
\* negative offset; 0 when there is none (undefined)
RECURSIVE ReduceClosest(_, _, _, _, _)
ReduceClosest(i, n, y, k, closest) ==
    IF k > n THEN closest.element
    ELSE LET offset == y - CenterOf(k)
         IN IF <<i, k>> # dragging
               /\ offset < 0
               /\ (closest.element = 0 \/ offset > closest.offset)
            THEN ReduceClosest(i, n, y, k + 1, [offset |-> offset, element |-> k])
            ELSE ReduceClosest(i, n, y, k + 1, closest)

getDragAfterElement(i, y) ==
    ReduceClosest(i, Len(state.columns[i].cards), y, 1,
                  [offset |-> 0, element |-> 0])

\* the index column.ondrop computes for a card dropped at y on column i
DropIndex(i, y) ==
    LET afterElement == getDragAfterElement(i, y)
        cards == state.columns[FindIndex(state.columns, state.columns[i].id) + 1].cards
    IN IF afterElement # 0
       THEN FindIndex(cards, state.columns[i].cards[afterElement].id)
       ELSE Len(cards)

DropPostingBefore ==
    /\ Rendered
    /\ \E i \in 1..Len(state.columns) :
       \E y \in DropPoints(Len(state.columns[i].cards)) :
        LET col == state.columns[i]
        IN IF dragged = Null
           THEN /\ UNCHANGED <<state, inbox, posts, dragged, draggedType,
                               fromColumn, dragging>>
                /\ last' = Other
           ELSE IF draggedType = "column"
           THEN /\ IF dragged.id # col.id
                   THEN /\ PostMessage([type |-> "move-column",
                                        fromId |-> dragged.id, toId |-> col.id,
                                        seen |-> seen])
                        /\ last' = Other
                   ELSE /\ UNCHANGED <<inbox, posts>>
                        /\ last' = Other
                /\ dragged' = Null
                /\ fromColumn' = NullId
                /\ draggedType' = "null"
                /\ UNCHANGED <<state, dragging>>
           ELSE LET index == DropIndex(i, y)
                    r == moveCard(state, fromColumn, col.id, dragged.id, Some(index))
                IN IF r.threw
                   THEN /\ state' = r.state
                        /\ UNCHANGED <<inbox, posts, dragged, draggedType,
                                       fromColumn, dragging>>
                        /\ last' = Other
                   ELSE /\ state' = r.state
                        /\ dragging' = <<>>
                        /\ PostMessage([type |-> "update", data |-> state,
                                        seen |-> seen])
                        /\ dragged' = Null
                        /\ fromColumn' = NullId
                        /\ draggedType' = "null"
                        /\ last' = [op |-> "drop"]
    /\ UNCHANGED <<preview, document, version, now, prompts, edits, saves,
                   toWebview, seen, externals>>

\* column.ondrop on column i at y
Drop ==
    /\ Rendered
    /\ \E i \in 1..Len(state.columns) :
       \E y \in DropPoints(Len(state.columns[i].cards)) :
        LET col == state.columns[i]
        IN IF dragged = Null
           THEN /\ UNCHANGED <<state, inbox, posts, dragged, draggedType,
                               fromColumn, dragging>>
                /\ last' = Other
           ELSE IF draggedType = "column"
           THEN /\ IF dragged.id # col.id
                   THEN /\ PostMessage([type |-> "move-column",
                                        fromId |-> dragged.id, toId |-> col.id,
                                        seen |-> seen])
                        /\ last' = Other
                   ELSE /\ UNCHANGED <<inbox, posts>>
                        /\ last' = Other
                /\ dragged' = Null
                /\ fromColumn' = NullId
                /\ draggedType' = "null"
                /\ UNCHANGED <<state, dragging>>
           ELSE LET index == DropIndex(i, y)
                    r == moveCard(state, fromColumn, col.id, dragged.id, Some(index))
                IN IF r.threw
                   THEN /\ state' = r.state
                        /\ UNCHANGED <<inbox, posts, dragged, draggedType,
                                       fromColumn, dragging>>
                        /\ last' = Other
                   ELSE /\ state' = r.state
                        /\ dragging' = <<>>
                        /\ PostMessage([type |-> "update", data |-> r.state,
                                        seen |-> seen])
                        /\ dragged' = Null
                        /\ fromColumn' = NullId
                        /\ draggedType' = "null"
                        /\ last' = [op |-> "drop"]
    /\ UNCHANGED <<preview, document, version, now, prompts, edits, saves,
                   toWebview, seen, externals>>

\* ------------------------------------------------ the editor
\* `preview` once the file exists and its editor has been resolved
Resolved == [exists |-> TRUE, calls |-> <<>>, started |-> 0, resolved |-> TRUE]

\* resolveCustomTextEditor on a file that exists: the first sendData()
InitTexts == {Stringify(SampleBoard)}

Init ==
    /\ document \in InitTexts
    /\ version = 1
    /\ now = 1
    /\ inbox = <<>>
    /\ prompts = <<>>
    /\ edits = <<>>
    /\ saves = 0
    /\ toWebview = sendData(document, version, <<>>)
    /\ state = Null
    /\ seen = 0
    /\ dragged = Null
    /\ draggedType = "null"
    /\ fromColumn = NullId
    /\ dragging = <<>>
    /\ posts = 0
    /\ externals = 0
    /\ preview = Resolved
    /\ last = Other

Next ==
    \/ OnDidReceiveMessage
    \/ PromptAnswered
    \/ ApplyEdit
    \/ ApplyEditFails
    \/ ExternalEdit
    \/ OnMessage
    \/ ClickDeleteColumn
    \/ ClickDeleteCard
    \/ ClickAddColumn
    \/ ClickAddCard
    \/ saveRename
    \/ CardDragStart
    \/ ColumnDragStart
    \/ DragEnd
    \/ Drop

Spec == Init /\ [][Next]_vars

\* ------------------------------------------------ the host taken alone
\* Any message may arrive, whatever the webview shows: its ids are taken
\* from the mirror (which may be stale) or resolve nowhere.
UnknownId == <<"z">>

ColumnIdsInSight ==
    (IF state = Null THEN {} ELSE RangeOf(ColumnIds(state))) \cup {UnknownId}

CardIdsInSight ==
    (IF state = Null THEN {} ELSE {c.id : c \in RangeOf(CardsOf(state))})
    \cup {UnknownId}

\* the Boards a mirror can hold after one card drop
DroppedBoards ==
    IF state = Null THEN {}
    ELSE {moveCard(state, f, t, c, Some(k)).state :
            f \in RangeOf(ColumnIds(state)), t \in RangeOf(ColumnIds(state)),
            c \in {x.id : x \in RangeOf(CardsOf(state))},
            k \in 0..Len(CardsOf(state))}

AnyMessages ==
    {[type |-> "delete-column", columnId |-> c, seen |-> seen] :
        c \in ColumnIdsInSight}
    \cup {[type |-> "rename-column", columnId |-> c, newTitle |-> <<"Q">>,
           seen |-> seen] : c \in ColumnIdsInSight}
    \cup {[type |-> "add-column", seen |-> seen]}
    \cup {[type |-> "add-card", columnId |-> c, seen |-> seen] :
            c \in ColumnIdsInSight}
    \cup {[type |-> "delete-card", columnId |-> c, cardId |-> k, seen |-> seen] :
            c \in ColumnIdsInSight, k \in CardIdsInSight}
    \cup {[type |-> "move-column", fromId |-> f, toId |-> t, seen |-> seen] :
            f \in ColumnIdsInSight, t \in ColumnIdsInSight}

Arrive ==
    /\ posts < MaxArrivals
    /\ \E msg \in AnyMessages : PostMessage(msg)
    /\ last' = Other
    /\ UNCHANGED <<preview, document, version, now, prompts, edits, saves, toWebview,
                   state, seen, dragged, draggedType, fromColumn, dragging,
                   externals>>

\* a card drop of any kind: the mirror changes locally and posts update
DropAnywhere ==
    /\ posts < MaxArrivals
    /\ \E board \in DroppedBoards :
        /\ state' = board
        /\ PostMessage([type |-> "update", data |-> board, seen |-> seen])
    /\ last' = [op |-> "drop"]
    /\ UNCHANGED <<preview, document, version, now, prompts, edits, saves, toWebview,
                   seen, dragged, draggedType, fromColumn, dragging, externals>>

NextHost ==
    \/ OnDidReceiveMessage
    \/ PromptAnswered
    \/ ApplyEdit
    \/ ApplyEditFails
    \/ ExternalEdit
    \/ OnMessage
    \/ Arrive
    \/ DropAnywhere

SpecHost == Init /\ [][NextHost]_vars

\* ------------------------------------------------ moveCard taken alone
\* Boards of two columns holding the first n cards in some order
MoveCards(n) == [i \in 1..n |-> Card(<<"c">> \o NumberToString(i), <<"T">> \o NumberToString(i))]

Orderings(n) ==
    {p \in [1..n -> 1..n] : \A i \in 1..n, j \in 1..n : p[i] = p[j] => i = j}

MoveBoards ==
    {Board(<<Column(<<"a">>, <<"A">>, [i \in 1..k |-> MoveCards(n)[p[i]]]),
             Column(<<"b">>, <<"B">>, [i \in 1..(n - k) |-> MoveCards(n)[p[k + i]]])>>) :
        <<n, k, p>> \in {<<n, k, p>> \in (0..MaxCards) \X (0..MaxCards) \X
                            UNION {Orderings(m) : m \in 0..MaxCards} :
                           k <= n /\ p \in Orderings(n)}}

\* the webview holds the snapshot of a Board and nothing is under way
InitMove ==
    /\ state \in MoveBoards
    /\ document = Stringify(state)
    /\ version = 1
    /\ now = 1
    /\ inbox = <<>>
    /\ prompts = <<>>
    /\ edits = <<>>
    /\ saves = 0
    /\ toWebview = <<>>
    /\ seen = 1
    /\ dragged = Null
    /\ draggedType = "null"
    /\ fromColumn = NullId
    /\ dragging = <<>>
    /\ posts = 0
    /\ externals = 0
    /\ preview = Resolved
    /\ last = Other

MoveIndexes == {Undefined} \cup {Some(k) : k \in -1..(MaxCards + 1)}

\* one call of moveCard with any arguments
MoveCardCall ==
    /\ last = Other
    /\ \E fromId \in ColumnIdsInSight, toId \in ColumnIdsInSight,
          cardId \in CardIdsInSight, toIndex \in MoveIndexes :
        /\ state' = moveCard(state, fromId, toId, cardId, toIndex).state
        /\ last' = [op |-> "moveCard", before |-> state, fromId |-> fromId,
                    toId |-> toId, cardId |-> cardId, toIndex |-> toIndex,
                    threw |-> moveCard(state, fromId, toId, cardId, toIndex).threw]
    /\ UNCHANGED <<preview, document, version, now, inbox, prompts, edits, saves,
                   toWebview, seen, dragged, draggedType, fromColumn, dragging,
                   posts, externals>>

NextMove == MoveCardCall

SpecMove == InitMove /\ [][NextMove]_vars

\* ------------------------------------------------ one message on any Board
\* Boards of up to MaxColumns columns a, b, c, ... holding the first n of
\* three cards, each in any column
SampleCards == CardsOf(SampleBoard)

OneCards == SampleCards \o <<ExternalCard>>

OneBoards ==
    {Board([c \in 1..m |->
              Column(<<LowerCase[c]>>, <<UpperCase[c]>>,
                     Flatten([i \in 1..n |->
                                IF p[i] = c THEN <<OneCards[i]>> ELSE <<>>]))]) :
        <<m, n, p>> \in {<<m, n, p>> \in (0..MaxColumns) \X (0..Len(OneCards)) \X
                            UNION {[1..k -> 1..MaxColumns] : k \in 0..Len(OneCards)} :
                           /\ DOMAIN p = 1..n
                           /\ \A i \in 1..n : p[i] <= m}}

\* the document holds a Board, the webview has taken its snapshot and
\* nothing is under way
InitOne ==
    /\ state \in OneBoards
    /\ document = Stringify(state)
    /\ version = 1
    /\ now = 1
    /\ inbox = <<>>
    /\ prompts = <<>>
    /\ edits = <<>>
    /\ saves = 0
    /\ toWebview = <<>>
    /\ seen = 1
    /\ dragged = Null
    /\ draggedType = "null"
    /\ fromColumn = NullId
    /\ dragging = <<>>
    /\ posts = 0
    /\ externals = 0
    /\ preview = Resolved
    /\ last = Other

\* the one message of the run
ArriveOnce == posts = 0 /\ Arrive

DropOnce == posts = 0 /\ DropAnywhere

RenameOnce == posts = 0 /\ saveRename

NextOne ==
    \/ ArriveOnce
    \/ DropOnce
    \/ RenameOnce
    \/ OnDidReceiveMessage
    \/ PromptAnswered
    \/ ApplyEdit
    \/ ApplyEditFails
    \/ OnMessage

SpecOne == InitOne /\ [][NextOne]_vars

\* ------------------------------------------------ messages one after another
\* Messages on the sample Board: one of each type whose ids resolve, and one
\* whose id does not.
AfterMessages ==
    {[type |-> "delete-column", columnId |-> <<"a">>, seen |-> seen],
     [type |-> "delete-column", columnId |-> UnknownId, seen |-> seen],
     [type |-> "rename-column", columnId |-> <<"b">>, newTitle |-> <<"Q">>,
      seen |-> seen],
     [type |-> "add-column", seen |-> seen],
     [type |-> "add-card", columnId |-> <<"a">>, seen |-> seen],
     [type |-> "delete-card", columnId |-> <<"a">>, cardId |-> <<"c","1">>,
      seen |-> seen],
     [type |-> "move-column", fromId |-> <<"a">>, toId |-> <<"b">>, seen |-> seen]}

ArriveAfter ==
    /\ \E msg \in AfterMessages : PostMessage(msg)
    /\ last' = Other
    /\ UNCHANGED <<preview, document, version, now, prompts, edits, saves, toWebview,
                   state, seen, dragged, draggedType, fromColumn, dragging,
                   externals>>

NextAfter ==
    \/ ArriveAfter
    \/ OnDidReceiveMessage
    \/ PromptAnswered
    \/ ApplyEdit
    \/ ApplyEditFails
    \/ ExternalEdit

SpecAfter == Init /\ [][NextAfter]_vars

\* ------------------------------------------------ serialize, then parse
\* Ids and titles as a prompt or a file can give them: empty, plain, and
\* with the characters that JSON escapes or uses for its structure.
TripStrings ==
    {<<>>, <<"a">>, <<Quote>>, <<Backslash>>, <<Backslash, Quote>>,
     <<"a", Quote, ",", "}">>}

\* a column has s for id and title and holds no card or the card of t
TripColumns ==
    {Column(s, s, <<>>) : s \in TripStrings}
    \cup {Column(s, s, <<Card(t, t)>>) : s \in TripStrings, t \in TripStrings}

TripBoards ==
    {Board(cols) : cols \in UNION {[1..k -> TripColumns] : k \in 0..MaxTripColumns}}

\* the handler holds a Board (data) that is dirty; nothing is written yet
InitTrip ==
    /\ state \in TripBoards
    /\ document = <<>>
    /\ version = 1
    /\ now = 1
    /\ inbox = <<>>
    /\ prompts = <<>>
    /\ edits = <<>>
    /\ saves = 0
    /\ toWebview = <<>>
    /\ seen = 0
    /\ dragged = Null
    /\ draggedType = "null"
    /\ fromColumn = NullId
    /\ dragging = <<>>
    /\ posts = 0
    /\ externals = 0
    /\ preview = Resolved
    /\ last = Other

\* the dirty write puts JSON.stringify(data, null, 2) in the document
WriteTrip ==
    /\ last = Other
    /\ document' = Stringify(state)
    /\ last' = [op |-> "stringify"]
    /\ UNCHANGED <<preview, version, now, inbox, prompts, edits, saves, toWebview,
                   state, seen, dragged, draggedType, fromColumn, dragging, posts,
                   externals>>

\* sendData posts JSON.parse(document.getText())
ReadTrip ==
    /\ last.op = "stringify"
    /\ toWebview' = sendData(document, version, toWebview)
    /\ last' = [op |-> "parse"]
    /\ UNCHANGED <<preview, document, version, now, inbox, prompts, edits, saves,
                   state, seen, dragged, draggedType, fromColumn, dragging, posts,
                   externals>>

NextTrip == WriteTrip \/ ReadTrip

SpecTrip == InitTrip /\ [][NextTrip]_vars

\* ------------------------------------------------ openPreview
\* openPreview's initialTodo
previewTodo ==
    Board(<<Column(<<"I","d","e","a","s">>, <<"I","d","e","a","s">>, <<>>),
            Column(<<"I","n","-","P","r","o","g","r","e","s","s">>,
                   <<"I","n"," ","P","r","o","g","r","e","s","s">>, <<>>),
            Column(<<"D","o","n","e">>, <<"D","o","n","e">>, <<>>)>>)

\* The file is there or not; no call of openPreview is under way and no
\* editor is open.  `document` is the text of the file (empty: no file).
InitOpen ==
    /\ preview \in {[exists |-> e, calls |-> <<>>, started |-> 0, resolved |-> FALSE] :
                      e \in BOOLEAN}
    /\ document = IF preview.exists THEN Stringify(SampleBoard) ELSE <<>>
    /\ version = 1
    /\ now = 1
    /\ inbox = <<>>
    /\ prompts = <<>>
    /\ edits = <<>>
    /\ saves = 0
    /\ toWebview = <<>>
    /\ state = Null
    /\ seen = 0
    /\ dragged = Null
    /\ draggedType = "null"
    /\ fromColumn = NullId
    /\ dragging = <<>>
    /\ posts = 0
    /\ externals = 0
    /\ last = Other

\* openPreview(uri) up to the answer of fs.stat(uri): it resolves when the
\* file exists and rejects when it does not, and the call goes on from there
OpenPreviewStat ==
    /\ preview.started < MaxOpens
    /\ preview' = [preview EXCEPT
                     !.started = @ + 1,
                     !.calls = Append(@, IF preview.exists THEN "resolved"
                                         ELSE "rejected")]
    /\ last' = [op |-> "stat", found |-> preview.exists]
    /\ UNCHANGED <<document, version, now, inbox, prompts, edits, saves,
                   toWebview, state, seen, dragged, draggedType, fromColumn,
                   dragging, posts, externals>>

\* The catch branch of a call whose stat rejected: writeFile(uri,
\* JSON.stringify(initialTodo, null, 2)) puts the template in the file,
\* whatever the file holds by now.  An open document is reloaded from the
\* file (onDidChangeTextDocument then calls sendData).
OpenPreviewWrite ==
    \E i \in 1..Len(preview.calls) :
        /\ preview.calls[i] = "rejected"
        /\ preview' = [preview EXCEPT !.exists = TRUE, !.calls[i] = "written"]
        /\ document' = Stringify(previewTodo)
        /\ version' = IF preview.resolved /\ document' # document
                      THEN version + 1 ELSE version
        /\ toWebview' = IF preview.resolved /\ document' # document
                        THEN sendData(document', version', toWebview)
                        ELSE toWebview
        /\ last' = [op |-> "writeFile", existed |-> preview.exists,
                    before |-> document]
        /\ UNCHANGED <<now, inbox, prompts, edits, saves, state, seen, dragged,
                       draggedType, fromColumn, dragging, posts, externals>>

\* executeCommand('vscode.openWith', uri, 'todoBoard.preview') of a call
\* whose stat resolved or whose write is done: the first time the editor is
\* resolved for the document (resolveCustomTextEditor calls sendData()),
\* later the open editor is shown
OpenWith ==
    \E i \in 1..Len(preview.calls) :
        /\ preview.calls[i] \in {"resolved", "written"}
        /\ preview' = [preview EXCEPT !.calls = RemoveAt(@, i - 1),
                                      !.resolved = TRUE]
        /\ toWebview' = IF preview.resolved THEN toWebview
                        ELSE sendData(document, version, toWebview)
        /\ last' = [op |-> "openWith", call |-> preview.calls[i]]
        /\ UNCHANGED <<document, version, now, inbox, prompts, edits, saves,
                       state, seen, dragged, draggedType, fromColumn, dragging,
                       posts, externals>>

\* Another actor (a person, a tool, createBoard) creates the file.
OutsideCreate ==
    /\ ~preview.exists
    /\ externals < MaxExternal
    /\ preview' = [preview EXCEPT !.exists = TRUE]
    /\ document' = Stringify(SampleBoard)
    /\ externals' = externals + 1
    /\ last' = [op |-> "create"]
    /\ UNCHANGED <<version, now, inbox, prompts, edits, saves, toWebview, state,
                   seen, dragged, draggedType, fromColumn, dragging, posts>>

NextOpen ==
    \/ OpenPreviewStat
    \/ OpenPreviewWrite
    \/ OpenWith
    \/ OutsideCreate
    \/ OnMessage
    \/ ClickAddColumn
    \/ ClickAddCard
    \/ OnDidReceiveMessage
    \/ PromptAnswered
    \/ ApplyEdit
    \/ ApplyEditFails

SpecOpen == InitOpen /\ [][NextOpen]_vars

\* ------------------------------------------------ one card drop
\* the one drop of the run that posts
DropFirst == posts = 0 /\ Drop

\* On any Board the webview shows, cards are dragged and dropped; the host
\* handles the message of the first drop that posts one, and nothing else
\* touches the document.
NextDrop ==
    \/ CardDragStart
    \/ DragEnd
    \/ DropFirst
    \/ OnDidReceiveMessage
    \/ ApplyEdit
    \/ ApplyEditFails
    \/ OnMessage

SpecDrop == InitOne /\ [][NextDrop]_vars

\* ------------------------------------------------ createBoard
\* name.replace(/[^a-z0-9\- ]/gi, '').trim()
SafeName(name) ==
    Trim(SelectSeq(name, LAMBDA c : c \in RangeOf(LowerCase) \cup RangeOf(UpperCase)
                                         \cup RangeOf(Digits) \cup {"-", " "}))

\* (safeName || 'untitled') + '.board.json'
FileName(name) ==
    (IF SafeName(name) = <<>> THEN <<"u","n","t","i","t","l","e","d">>
     ELSE SafeName(name))
    \o <<".","b","o","a","r","d",".","j","s","o","n">>

\* the name of the file `preview` and `document` stand for
BoardFile == <<"t",".","b","o","a","r","d",".","j","s","o","n">>

\* what showInputBox yields for the name: undefined when it is cancelled,
\* or the text typed
CreateNames ==
    {Undefined, Some(<<>>), Some(<<"t">>), Some(<<" ","t","!">>), Some(<<"!">>)}

\* createBoard up to its showInputBox
CreateBoardPrompt ==
    /\ preview.started < MaxOpens
    /\ preview' = [preview EXCEPT !.started = @ + 1,
                                  !.calls = Append(@, "prompt")]
    /\ last' = [op |-> "createBoard"]
    /\ UNCHANGED <<document, version, now, inbox, prompts, edits, saves,
                   toWebview, state, seen, dragged, draggedType, fromColumn,
                   dragging, posts, externals>>

\* The prompt yields name: without a name the call returns; with one it
\* asks fs.stat for the file of the derived name.  A call for another file
\* than BoardFile goes on without touching BoardFile and is followed no
\* further.
CreateBoardNamed ==
    \E i \in 1..Len(preview.calls), name \in CreateNames :
        /\ preview.calls[i] = "prompt"
        /\ preview' = IF Truthy(name) /\ FileName(name[1]) = BoardFile
                      THEN [preview EXCEPT !.calls[i] = "stat"]
                      ELSE [preview EXCEPT !.calls = RemoveAt(@, i - 1)]
        /\ last' = [op |-> "name", name |-> name]
        /\ UNCHANGED <<document, version, now, inbox, prompts, edits, saves,
                       toWebview, state, seen, dragged, draggedType, fromColumn,
                       dragging, posts, externals>>

\* fs.stat(uri) answers: when the file exists the call shows 'File already
\* exists' and returns, when it does not the call goes on
CreateBoardStat ==
    \E i \in 1..Len(preview.calls) :
        /\ preview.calls[i] = "stat"
        /\ preview' = IF preview.exists
                      THEN [preview EXCEPT !.calls = RemoveAt(@, i - 1)]
                      ELSE [preview EXCEPT !.calls[i] = "absent"]
        /\ last' = [op |-> "createStat", found |-> preview.exists]
        /\ UNCHANGED <<document, version, now, inbox, prompts, edits, saves,
                       toWebview, state, seen, dragged, draggedType, fromColumn,
                       dragging, posts, externals>>

\* writeFile(uri, JSON.stringify(initialTodo, null, 2)) of a call whose stat
\* rejected puts the template in the file, whatever the file holds by now.
\* An open document is reloaded from the file.
CreateBoardWrite ==
    \E i \in 1..Len(preview.calls) :
        /\ preview.calls[i] = "absent"
        /\ preview' = [preview EXCEPT !.exists = TRUE, !.calls[i] = "created"]
        /\ document' = Stringify(initialTodo)
        /\ version' = IF preview.resolved /\ document' # document
                      THEN version + 1 ELSE version
        /\ toWebview' = IF preview.resolved /\ document' # document
                        THEN sendData(document', version', toWebview)
                        ELSE toWebview
        /\ last' = [op |-> "createWrite", existed |-> preview.exists]
        /\ UNCHANGED <<now, inbox, prompts, edits, saves, state, seen, dragged,
                       draggedType, fromColumn, dragging, posts, externals>>

\* await openPreview(uri) at the end of createBoard, up to the answer of its
\* fs.stat(uri)
CreateBoardOpenPreview ==
    \E i \in 1..Len(preview.calls) :
        /\ preview.calls[i] = "created"
        /\ preview' = [preview EXCEPT
                         !.calls[i] = IF preview.exists THEN "resolved"
                                      ELSE "rejected"]
        /\ last' = [op |-> "stat", found |-> preview.exists]
        /\ UNCHANGED <<document, version, now, inbox, prompts, edits, saves,
                       toWebview, state, seen, dragged, draggedType, fromColumn,
                       dragging, posts, externals>>

NextCreate ==
    \/ CreateBoardPrompt
    \/ CreateBoardNamed
    \/ CreateBoardStat
    \/ CreateBoardWrite
    \/ CreateBoardOpenPreview
    \/ OpenPreviewStat
    \/ OpenPreviewWrite
    \/ OpenWith
    \/ OutsideCreate
    \/ OnMessage
    \/ ClickAddColumn
    \/ OnDidReceiveMessage
    \/ PromptAnswered
    \/ ApplyEdit
    \/ ApplyEditFails

SpecCreate == InitOpen /\ [][NextCreate]_vars

\* ------------------------------------------------ properties of moveCard
\* the cards of the column of that id, <<>> when the id does not resolve
CardsIn(board, id) ==
    IF FindIndex(board.columns, id) = NotFound THEN <<>>
    ELSE board.columns[FindIndex(board.columns, id) + 1].cards

Moved == last.op = "moveCard"

\* a call that asks to move the card at index i to index j > i of its column
ReorderedForward ==
    /\ Moved
    /\ last.fromId = last.toId
    /\ last.toIndex # Undefined
    /\ FindIndex(CardsIn(last.before, last.fromId), last.cardId) # NotFound
    /\ FindIndex(CardsIn(last.before, last.fromId), last.cardId) < last.toIndex[1]
    /\ last.toIndex[1] <= Len(CardsIn(last.before, last.fromId))

\* C4: when the card at index i of a column is moved to index j of that
\* column, i < j <= length, it ends at index j - 1, the other cards of the
\* column keep their order, and the other columns are as they were.
C4_SameColumnReorder ==
    ReorderedForward =>
        LET before == CardsIn(last.before, last.fromId)
            after == CardsIn(state, last.fromId)
            i == FindIndex(before, last.cardId)
            j == last.toIndex[1]
        IN /\ Len(after) = Len(before)
           /\ after[j] = before[i + 1]
           /\ RemoveAt(after, j - 1) = RemoveAt(before, i)
           /\ \A c \in 1..Len(state.columns) :
                state.columns[c].id # last.fromId =>
                    state.columns[c] = last.before.columns[c]

\* the first card of a column of three was moved to index 2
C4_Witness ==
    /\ ReorderedForward
    /\ FindIndex(CardsIn(last.before, last.fromId), last.cardId) = 0
    /\ last.toIndex[1] = 2
    /\ Len(CardsIn(last.before, last.fromId)) = 3
    /\ state # last.before

\* C5: whatever the ids and the index of a moveCard call, the Board holds
\* as many cards after it as before, and every card is still there with its
\* id and title.
C5_MoveConservation ==
    Moved =>
        /\ CardCount(state) = CardCount(last.before)
        /\ RangeOf(CardsOf(state)) = RangeOf(CardsOf(last.before))

\* ------------------------------------------------ properties of the host
\* the step is the handler taking the oldest message of the inbox
Dispatching == inbox # <<>> /\ inbox' = Tail(inbox)

\* no write is attempted: no edit is handed to applyEdit, save is not called
NoWrite == edits' = edits /\ saves' = saves

\* an id of the message resolves nowhere in the Board
Unresolved(board, msg) ==
    CASE msg.type \in {"delete-column", "rename-column", "add-card"} ->
            FindIndex(board.columns, msg.columnId) = NotFound
      [] msg.type = "delete-card" ->
            FindIndex(CardsIn(board, msg.columnId), msg.cardId) = NotFound
      [] msg.type = "move-column" ->
            \/ FindIndex(board.columns, msg.fromId) = NotFound
            \/ FindIndex(board.columns, msg.toId) = NotFound
      [] OTHER -> FALSE

\* the step resumes the handler of prompts[i] with an answer
Resuming(i) ==
    /\ i \in 1..Len(prompts)
    /\ prompts' = RemoveAt(prompts, i - 1)
    /\ last'.op = "prompt"
    /\ last'.type = prompts[i].msg.type

\* C6: a delete-column, rename-column, delete-card or move-column message
\* whose id does not resolve in the Board of the document leaves the
\* document as it is and attempts no write; so does add-card, whose column
\* is looked up, once the prompt is answered, in the Board the handler read.
C6_UnresolvedIdNoOp ==
    [][/\ (Dispatching /\ Parse(document) # ParseError
             /\ Unresolved(Parse(document), Head(inbox)))
          => (document' = document /\ NoWrite)
       /\ \A i \in 1..Len(prompts) :
            (Resuming(i) /\ Unresolved(prompts[i].data, prompts[i].msg))
            => (document' = document /\ NoWrite)]_vars

\* a delete-column message was handled and its column id did not resolve
C6_Witness ==
    /\ last.op = "message"
    /\ last.type = "delete-column"
    /\ last.parsed
    /\ ~last.dirty

\* C7: a step that leaves the document malformed sends no snapshot (a step
\* that sends one leaves a document that parses), and a
\* message handled while the document is malformed is dropped: no prompt
\* opens, the document stays as it is and no write is attempted.
C7_MalformedDocument ==
    [][/\ (toWebview' # toWebview
           /\ ~(toWebview # <<>> /\ toWebview' = Tail(toWebview)))
          => Parse(document') # ParseError
       /\ (Dispatching /\ Parse(document) = ParseError)
          => (prompts' = prompts /\ document' = document /\ NoWrite)]_vars

\* an add-column message was dropped because the document did not parse
C7_Witness ==
    /\ last.op = "message"
    /\ last.type = "add-column"
    /\ ~last.parsed
    /\ Parse(document) = ParseError

\* C8: when the prompt of add-column or add-card answers undefined or the
\* empty string, the document stays as it is, no snapshot is sent and no
\* write is attempted.
C8_PromptCancelled ==
    [][(last'.op = "prompt" /\ last'.title \in {Undefined, Some(<<>>)})
       => (document' = document /\ toWebview' = toWebview /\ NoWrite)]_vars

\* a prompt was answered with the empty string
C8_Witness ==
    /\ last.op = "prompt"
    /\ last.title = Some(<<>>)

\* C9: a step that changes the document to a text that parses sends the
\* snapshot of the new Board, and the mirror that takes a snapshot holds
\* exactly the Board of that snapshot afterwards.
C9_SnapshotReplacesMirror ==
    [][/\ (document' # document /\ Parse(document') # ParseError)
          => toWebview' = Append(toWebview, [data |-> Parse(document'),
                                             version |-> version'])
       /\ (toWebview # <<>> /\ toWebview' = Tail(toWebview))
          => state' = Head(toWebview).data]_vars

\* the mirror took the snapshot of a changed document
C9_Witness ==
    /\ last.op = "snapshot"
    /\ seen > 1
    /\ state = Parse(document)

\* ------------------------------------------------ properties of the whole
\* the step applies the oldest edit to the document
Written == edits # <<>> /\ edits' = Tail(edits) /\ last'.op = "applied"

ColumnIdsOfText(text) ==
    IF Parse(text) = ParseError THEN {} ELSE RangeOf(ColumnIds(Parse(text)))

CardsOfText(text) ==
    IF Parse(text) = ParseError THEN {} ELSE RangeOf(CardsOf(Parse(text)))

\* new is old with one more column at the end, or with one more card at the
\* end of the column of that id
CreatedOn(old, new, msg) ==
    IF msg.type = "add-column"
    THEN /\ Len(new.columns) = Len(old.columns) + 1
         /\ SubSeq(new.columns, 1, Len(old.columns)) = old.columns
    ELSE /\ Len(new.columns) = Len(old.columns)
         /\ \A i \in 1..Len(old.columns) :
              IF i = FindIndex(old.columns, msg.columnId) + 1
              THEN /\ new.columns[i].id = old.columns[i].id
                   /\ new.columns[i].title = old.columns[i].title
                   /\ Len(new.columns[i].cards) = Len(old.columns[i].cards) + 1
                   /\ SubSeq(new.columns[i].cards, 1, Len(old.columns[i].cards))
                        = old.columns[i].cards
              ELSE new.columns[i] = old.columns[i]

\* C1: the write of an add-column or add-card leaves the Board that the
\* document held just before it, with the created column or card added:
\* whatever was committed while the prompt was open is still there.
C1_CreateOnCurrentBoard ==
    [][(Written /\ Head(edits).msg.type \in {"add-column", "add-card"}
          /\ Parse(document) # ParseError)
       => /\ Parse(document') # ParseError
          /\ CreatedOn(Parse(document), Parse(document'), Head(edits).msg)]_vars

\* C2: with UI messages only, a mutation is written over the very text its
\* handler read, so that it was applied to a Board holding the effect of
\* every message handled before it and erases none.
C2_ArrivalOrder ==
    [][(Written /\ externals = 0) => Head(edits).readVersion = version]_vars

\* C3: the write of an update that was posted by a mirror which had not
\* seen the document it is written over erases no card and no column of
\* that document.
C3_StaleUpdateKeepsChanges ==
    [][(Written /\ Head(edits).msg.type = "update"
          /\ Head(edits).msg.seen < version)
       => /\ CardsOfText(document) \subseteq CardsOfText(document')
          /\ ColumnIdsOfText(document) \subseteq ColumnIdsOfText(document')]_vars

\* C10: the snapshot sent by the handler that has just created a column or
\* a card holds that column or card under its generated id.
C10_SnapshotHoldsCreated ==
    (last.op = "prompt" /\ last.created # Undefined) =>
        /\ last.sent # Undefined
        /\ last.created[1] \in
             RangeOf(ColumnIds(last.sent[1]))
             \cup {c.id : c \in RangeOf(CardsOf(last.sent[1]))}

\* ------------------------------------------------ properties of the mutations
\* after is before with the card cardId of column fromId taken out and put
\* at index k of column toId, nothing else touched
CrossMoved(before, after, fromId, toId, cardId, k) ==
    LET i == FindIndex(CardsIn(before, fromId), cardId)
    IN /\ CardsIn(after, fromId) = RemoveAt(CardsIn(before, fromId), i)
       /\ Len(CardsIn(after, toId)) = Len(CardsIn(before, toId)) + 1
       /\ CardsIn(after, toId)[k + 1] = CardsIn(before, fromId)[i + 1]
       /\ RemoveAt(CardsIn(after, toId), k) = CardsIn(before, toId)
       /\ Len(after.columns) = Len(before.columns)
       /\ \A c \in 1..Len(before.columns) :
            /\ after.columns[c].id = before.columns[c].id
            /\ after.columns[c].title = before.columns[c].title
            /\ (c \notin {FindIndex(before.columns, fromId) + 1,
                          FindIndex(before.columns, toId) + 1})
               => after.columns[c] = before.columns[c]

\* the update message that commits the mirror's state
IsUpdateOf(msg, board) == msg.type = "update" /\ msg.data = board

\* C11: on every Board the mirror holds, moving a card of one column to
\* index k (0 <= k <= length) of another column takes it out of the first,
\* puts it at index k of the second and keeps the order of all other cards;
\* a card drop posts the moved Board as update, and the write of an update
\* leaves the document equal to the Board of the message.
C11_CrossColumnMove ==
    /\ [](state # Null =>
            \A fromId \in RangeOf(ColumnIds(state)),
               toId \in RangeOf(ColumnIds(state)) :
              fromId # toId =>
                \A cardId \in {c.id : c \in RangeOf(CardsIn(state, fromId))},
                   k \in 0..Len(CardsIn(state, toId)) :
                  /\ ~moveCard(state, fromId, toId, cardId, Some(k)).threw
                  /\ CrossMoved(state,
                                moveCard(state, fromId, toId, cardId, Some(k)).state,
                                fromId, toId, cardId, k))
    /\ [][/\ last'.op = "drop"
             => (inbox' # <<>> /\ IsUpdateOf(inbox'[Len(inbox')], state'))
          /\ (Written /\ Head(edits).msg.type = "update")
             => document' = Stringify(Head(edits).msg.data)]_vars

\* c1 was moved from a = [c1, c2] to the empty b and the update was written:
\* the document holds a = [c2], b = [c1]
C11_Witness ==
    /\ last.op = "applied"
    /\ last.type = "update"
    /\ document = Stringify(Board(<<
          Column(<<"a">>, <<"A">>, <<Card(<<"c", "2">>, <<"Y">>)>>),
          Column(<<"b">>, <<"B">>, <<Card(<<"c", "1">>, <<"X">>)>>)>>))

\* the step hands an edit for the message to applyEdit
WriteAttempted(msg) ==
    /\ Len(edits') = Len(edits) + 1
    /\ edits'[Len(edits')].msg = msg

\* the step writes the edit of a message of this type over a document that
\* parses, and leaves one that parses
WrittenBoard(type) ==
    /\ Written
    /\ Head(edits).msg.type = type
    /\ Parse(document) # ParseError
    /\ Parse(document') # ParseError

\* fromId and toId resolve to different columns of the Board
Movable(board, msg) ==
    /\ FindIndex(board.columns, msg.fromId) # NotFound
    /\ FindIndex(board.columns, msg.toId) # NotFound
    /\ msg.fromId # msg.toId

\* C12: a move-column whose fromId and toId resolve and differ is written,
\* and its write leaves the moved column at the index toId had before, with
\* its title and cards, and the other columns as they were, in their order.
C12_MoveColumn ==
    [][/\ (Dispatching /\ Head(inbox).type = "move-column"
             /\ Parse(document) # ParseError
             /\ Movable(Parse(document), Head(inbox)))
          => WriteAttempted(Head(inbox))
       /\ (Written /\ Head(edits).msg.type = "move-column")
          => /\ WrittenBoard("move-column")
             /\ Movable(Parse(document), Head(edits).msg)
             /\ LET old == Parse(document).columns
                    new == Parse(document').columns
                    fromIndex == FindIndex(old, Head(edits).msg.fromId)
                    toIndex == FindIndex(old, Head(edits).msg.toId)
                IN /\ Len(new) = Len(old)
                   /\ new[toIndex + 1] = old[fromIndex + 1]
                   /\ RemoveAt(new, toIndex) = RemoveAt(old, fromIndex)]_vars

\* the first of three columns was moved onto the third: a, b, c became
\* b, c, a
C12_Witness ==
    /\ last.op = "applied"
    /\ last.type = "move-column"
    /\ Parse(document) # ParseError
    /\ ColumnIds(Parse(document)) = <<<<"b">>, <<"c">>, <<"a">>>>

\* C13: a delete-column whose columnId resolves is written, and its write
\* leaves the columns of the document without that column (and so without
\* its cards), every other column as it was and in the same order.
C13_DeleteColumn ==
    [][/\ (Dispatching /\ Head(inbox).type = "delete-column"
             /\ Parse(document) # ParseError
             /\ FindIndex(Parse(document).columns, Head(inbox).columnId) # NotFound)
          => WriteAttempted(Head(inbox))
       /\ (Written /\ Head(edits).msg.type = "delete-column")
          => /\ WrittenBoard("delete-column")
             /\ FindIndex(Parse(document).columns, Head(edits).msg.columnId)
                  # NotFound
             /\ Parse(document').columns =
                  RemoveAt(Parse(document).columns,
                           FindIndex(Parse(document).columns,
                                     Head(edits).msg.columnId))]_vars

\* column a of the sample Board was deleted with both its cards: the
\* document holds column b alone (the mirror still shows the Board before)
C13_Witness ==
    /\ last.op = "applied"
    /\ last.type = "delete-column"
    /\ state = SampleBoard
    /\ document = Stringify(Board(<<Column(<<"b">>, <<"B">>, <<>>)>>))

\* C14: when the title left in a column's header is blank or only
\* whitespace, saveRename posts nothing, the document stays as it is and no
\* write is attempted; the rename-column it does post carries a title that
\* is not blank, and no rename is written with a blank title.
C14_BlankRenameRejected ==
    [][/\ (last'.op = "rename" /\ Trim(last'.typed) = <<>>)
          => (inbox' = inbox /\ document' = document /\ NoWrite)
       /\ (last'.op = "rename" /\ inbox' # inbox)
          => Trim(inbox'[Len(inbox')].newTitle) # <<>>
       /\ (Written /\ Head(edits).msg.type = "rename-column")
          => Trim(Head(edits).msg.newTitle) # <<>>]_vars

\* a title of one space was left in a header, and nothing was posted
C14_Witness ==
    /\ last.op = "rename"
    /\ last.typed = <<" ">>
    /\ inbox = <<>>
    /\ posts = 0
    /\ document = Stringify(state)

\* C15: a move-column whose fromId and toId are the same id leaves the
\* document, and so the order of its columns, as it is, and no write is
\* attempted.
C15_MoveColumnOntoItself ==
    [][(Dispatching /\ Head(inbox).type = "move-column"
          /\ Head(inbox).fromId = Head(inbox).toId)
       => (document' = document /\ NoWrite)]_vars

\* a move-column of column a onto column a was handled on a Board that has
\* column a
C15_Witness ==
    /\ last.op = "message"
    /\ last.type = "move-column"
    /\ last.parsed
    /\ last.msg.fromId = <<"a">>
    /\ last.msg.toId = <<"a">>
    /\ FindIndex(Parse(document).columns, <<"a">>) # NotFound

\* C16: save is called only in a step that applies the edit of the message,
\* and the edit that is applied replaces the whole text of the document by
\* the serialized Board of its handler.
C16_AutoSave ==
    [][/\ saves' # saves
          => (edits # <<>> /\ document' = Head(edits).text)
       /\ Written => document' = Head(edits).text]_vars

\* C17: an update handled on a document that parses is written, and its
\* write leaves a document whose Board is the data of the message, whatever
\* Board the document held.
C17_UpdateWholesale ==
    [][/\ (Dispatching /\ Head(inbox).type = "update"
             /\ Parse(document) # ParseError)
          => WriteAttempted(Head(inbox))
       /\ (Written /\ Head(edits).msg.type = "update")
          => Parse(document') = Head(edits).msg.data]_vars

\* an update was written over a document that held the card of an outside
\* edit which the message did not hold
C17_Witness ==
    /\ last.op = "applied"
    /\ last.type = "update"
    /\ externals > 0
    /\ Parse(document) # ParseError
    /\ ExternalCard \notin RangeOf(CardsOf(Parse(document)))

\* the step resumes prompt i, of a message of this type, with a title that
\* is not empty
Titled(i, type) ==
    /\ Resuming(i)
    /\ prompts[i].msg.type = type
    /\ Truthy(last'.title)

\* the Board of the edit the step hands to applyEdit
Attempted == Parse(edits'[Len(edits')].text)

\* the step writes the edit of a message of this type over the document its
\* handler read
WrittenOverRead(type) ==
    /\ Written
    /\ Head(edits).msg.type = type
    /\ Head(edits).readVersion = version

\* C18: an add-column whose prompt answers a title that is not empty attempts
\* the write of the Board its handler read with one column more, after all
\* the others, with that title and no cards, the columns read being as they
\* were; written over the document the handler read, that is the document.
C18_AddColumn ==
    [][/\ \A i \in 1..Len(prompts) :
            Titled(i, "add-column")
            => /\ WriteAttempted(prompts[i].msg)
               /\ LET old == prompts[i].data.columns
                      new == Attempted.columns
                  IN /\ Len(new) = Len(old) + 1
                     /\ SubSeq(new, 1, Len(old)) = old
                     /\ new[Len(new)].title = last'.title[1]
                     /\ new[Len(new)].cards = <<>>
       /\ WrittenOverRead("add-column") => document' = Head(edits).text]_vars

\* an add-column was written: the last column of the document has the title
\* answered and no cards, after the columns of the sample Board
C18_Witness ==
    /\ last.op = "applied"
    /\ last.type = "add-column"
    /\ Parse(document) # ParseError
    /\ LET new == Parse(document).columns
       IN /\ Len(new) = Len(SampleBoard.columns) + 1
          /\ new[1].id = SampleBoard.columns[1].id
          /\ new[Len(new)].title = <<"N", "!">>
          /\ new[Len(new)].cards = <<>>

\* C19: an add-card whose columnId resolves in the Board its handler read and
\* whose prompt answers a title that is not empty attempts the write of that
\* Board with one card more, of that title, at the end of that column, every
\* other card and column being as it was; written over the document the
\* handler read, that is the document.
C19_AddCard ==
    [][/\ \A i \in 1..Len(prompts) :
            (/\ Titled(i, "add-card")
             /\ FindIndex(prompts[i].data.columns, prompts[i].msg.columnId) # NotFound)
            => /\ WriteAttempted(prompts[i].msg)
               /\ LET old == prompts[i].data.columns
                      new == Attempted.columns
                      col == FindIndex(old, prompts[i].msg.columnId) + 1
                  IN /\ Len(new) = Len(old)
                     /\ \A c \in 1..Len(old) : c # col => new[c] = old[c]
                     /\ new[col].id = old[col].id
                     /\ new[col].title = old[col].title
                     /\ Len(new[col].cards) = Len(old[col].cards) + 1
                     /\ SubSeq(new[col].cards, 1, Len(old[col].cards)) = old[col].cards
                     /\ new[col].cards[Len(new[col].cards)].title = last'.title[1]
       /\ WrittenOverRead("add-card") => document' = Head(edits).text]_vars

\* an add-card was written: the first column of the document holds the cards
\* of the sample Board and then a card of the title answered
C19_Witness ==
    /\ last.op = "applied"
    /\ last.type = "add-card"
    /\ Parse(document) # ParseError
    /\ Len(Parse(document).columns) = Len(SampleBoard.columns)
    /\ LET cards == Parse(document).columns[1].cards
           were == SampleBoard.columns[1].cards
       IN /\ Len(cards) = Len(were) + 1
          /\ SubSeq(cards, 1, Len(were)) = were
          /\ cards[Len(cards)].title = <<"N", "!">>

\* columnId resolves in the Board and cardId in that column
CardResolves(board, msg) ==
    /\ FindIndex(board.columns, msg.columnId) # NotFound
    /\ FindIndex(board.columns[FindIndex(board.columns, msg.columnId) + 1].cards,
                 msg.cardId) # NotFound

\* C20: a delete-card whose columnId and cardId resolve is written, and its
\* write leaves that column without that card, its other cards in the order
\* they had, and every other column as it was.
C20_DeleteCard ==
    [][/\ (Dispatching /\ Head(inbox).type = "delete-card"
             /\ Parse(document) # ParseError
             /\ CardResolves(Parse(document), Head(inbox)))
          => WriteAttempted(Head(inbox))
       /\ (Written /\ Head(edits).msg.type = "delete-card")
          => /\ WrittenBoard("delete-card")
             /\ CardResolves(Parse(document), Head(edits).msg)
             /\ LET old == Parse(document).columns
                    new == Parse(document').columns
                    col == FindIndex(old, Head(edits).msg.columnId) + 1
                    idx == FindIndex(old[col].cards, Head(edits).msg.cardId) + 1
                IN /\ Len(new) = Len(old)
                   /\ \A c \in 1..Len(old) : c # col => new[c] = old[c]
                   /\ new[col].id = old[col].id
                   /\ new[col].title = old[col].title
                   /\ new[col].cards =
                        SubSeq(old[col].cards, 1, idx - 1)
                        \o SubSeq(old[col].cards, idx + 1, Len(old[col].cards))]_vars

\* the middle card of a column of three was deleted: the first and the last
\* are left, in that order
C20_Witness ==
    /\ last.op = "applied"
    /\ last.type = "delete-card"
    /\ Parse(document) # ParseError
    /\ \E c \in 1..Len(Parse(document).columns) :
         /\ state.columns[c].cards = OneCards
         /\ Parse(document).columns[c].cards = <<OneCards[1], OneCards[3]>>

\* no two elements of the sequence have the same id
DistinctIds(items) ==
    \A i \in 1..Len(items), j \in 1..Len(items) :
        items[i].id = items[j].id => i = j

\* C21: whenever the document holds a Board, no two of its columns have the
\* same id.
C21_ColumnIdsDistinct ==
    Parse(document) # ParseError => DistinctIds(Parse(document).columns)

\* C22: the id that add-column gives the column it creates is the id of no
\* column of the Board it is added to, and the id that add-card gives the
\* card it creates is the id of no card of that Board.
C22_CreatedIdUnique ==
    [][\A i \in 1..Len(prompts) :
          (Resuming(i) /\ last'.dirty)
          => LET made == last'.created[1]
                 board == prompts[i].data
             IN IF prompts[i].msg.type = "add-column"
                THEN \A c \in 1..Len(board.columns) : board.columns[c].id # made
                ELSE \A c \in 1..Len(CardsOf(board)) : CardsOf(board)[c].id # made]_vars

\* how many elements of the sequence equal x
Count(items, x) == Cardinality({i \in 1..Len(items) : items[i] = x})

\* Every column of new other than the one of id made has the id of a column
\* of old, and every card of new other than the one of id made is a card of
\* old, id and title; no id occurs more often than in old.
KeepsIds(old, new, made) ==
    /\ \A i \in 1..Len(new.columns) :
         LET col == new.columns[i]
         IN col.id # made
            => Count(ColumnIds(new), col.id) <= Count(ColumnIds(old), col.id)
    /\ \A i \in 1..Len(CardsOf(new)) :
         LET card == CardsOf(new)[i]
         IN card.id # made
            => Count(CardsOf(new), card) <= Count(CardsOf(old), card)

\* every column of new other than the one of id made has the title that a
\* column of old has under its id
KeepsTitles(old, new, made) ==
    \A i \in 1..Len(new.columns) :
        new.columns[i].id # made
        => \E j \in 1..Len(old.columns) :
             /\ old.columns[j].id = new.columns[i].id
             /\ old.columns[j].title = new.columns[i].title

\* new is old but for the title of the first column of that id
Retitled(old, new, columnId) ==
    /\ Len(new.columns) = Len(old.columns)
    /\ \A c \in 1..Len(old.columns) :
         /\ new.columns[c].id = old.columns[c].id
         /\ new.columns[c].cards = old.columns[c].cards
         /\ c # FindIndex(old.columns, columnId) + 1
            => new.columns[c].title = old.columns[c].title

\* C23: the Board that rename-column, move-column, delete-card or
\* delete-column hands to the write holds the columns and cards of the Board
\* read under the ids (and, but for the column renamed, the titles) they
\* had, and so does
\* the Board of add-column and add-card apart from the entity created and
\* the Board a card drop leaves in the mirror; rename-column changes the
\* title of the named column and nothing else.
C23_IdsImmutable ==
    [][/\ (Dispatching /\ edits' # edits
             /\ Head(inbox).type \in {"rename-column", "move-column",
                                      "delete-card", "delete-column"})
          => \A old \in {Parse(document)}, new \in {Attempted} :
               /\ KeepsIds(old, new, NullId)
               /\ Head(inbox).type # "rename-column"
                  => KeepsTitles(old, new, NullId)
               /\ Head(inbox).type = "rename-column"
                  => /\ Retitled(old, new, Head(inbox).columnId)
                     /\ new.columns[FindIndex(new.columns,
                                              Head(inbox).columnId) + 1].title
                          = Head(inbox).newTitle
       /\ \A i \in 1..Len(prompts) :
            (Resuming(i) /\ last'.dirty)
            => \A new \in {Attempted} :
                 /\ KeepsIds(prompts[i].data, new, last'.created[1])
                 /\ KeepsTitles(prompts[i].data, new, last'.created[1])
       /\ (last'.op = "drop" /\ state # Null /\ state' # state)
          => /\ KeepsIds(state, state', NullId)
             /\ KeepsTitles(state, state', NullId)
             /\ ColumnIds(state') = ColumnIds(state)]_vars

\* a rename was written: a column that holds cards has its id and its cards,
\* and the new title
C23_Witness ==
    /\ last.op = "applied"
    /\ last.type = "rename-column"
    /\ state # Null
    /\ Parse(document) # ParseError
    /\ \E c \in 1..Len(state.columns) :
         /\ state.columns[c].cards # <<>>
         /\ state.columns[c].title # <<"Q">>
         /\ Parse(document).columns[c]
              = [state.columns[c] EXCEPT !.title = <<"Q">>]

\* the step is one of openPreview
Previewing ==
    /\ preview' # preview
    /\ last'.op \in {"stat", "writeFile", "openWith"}

\* C24: openPreview writes only when the file does not exist, and what it
\* writes is the template of three columns without cards; no step of
\* openPreview changes the content of a file that exists.
C24_OpenPreviewKeepsExisting ==
    [][/\ (Previewing /\ last'.op = "writeFile")
          => /\ ~preview.exists
             /\ document' = Stringify(previewTodo)
             /\ Len(previewTodo.columns) = 3
             /\ \A c \in 1..3 : previewTodo.columns[c].cards = <<>>
       /\ (Previewing /\ preview.exists) => document' = document]_vars

\* C25: the handling of a message attempts at most one write; when applyEdit
\* answers that the edit was not applied, the document stays as it is, the
\* write is not attempted again, and the handler reports the failure once.
C25_WriteFailure ==
    [][/\ (Dispatching \/ \E i \in 1..Len(prompts) : Resuming(i))
          => Len(edits') <= Len(edits) + 1
       /\ last'.op = "refused"
          => /\ document' = document
             /\ edits' = Tail(edits)
             /\ last'.reports = 1]_vars

\* the edit the step hands to applyEdit holds this Board
Attempts(board) ==
    /\ Len(edits') = Len(edits) + 1
    /\ edits'[Len(edits')].text = Stringify(board)

Quiescent ==
    /\ inbox = <<>>
    /\ prompts = <<>>
    /\ edits = <<>>
    /\ toWebview = <<>>

\* C28: when nothing is under way and the document parses, the mirror holds
\* the Board of the document.
C28_MirrorConsistent ==
    (Quiescent /\ Parse(document) # ParseError) => state = Parse(document)

\* C29: the text that serializes a Board parses, and to that Board: the
\* same columns and cards, with their ids and titles, in the same order.
C29_RoundTrip ==
    last.op = "parse" => toWebview = <<[data |-> state, version |-> version]>>

\* a Board was serialized and parsed whose title holds a backslash and a
\* quote, and one whose card title holds a quote, a comma and a brace
C29_Witness ==
    /\ last.op = "parse"
    /\ Len(state.columns) = 2
    /\ state.columns[1].title = <<Backslash, Quote>>
    /\ state.columns[2].cards # <<>>
    /\ state.columns[2].cards[1].title = <<"a", Quote, ",", "}">>

\* C30: a write of the handler leaves a document that parses and that is
\* the serialization of the Board it parses to: no text of the document
\* before is left after it and none of the new text is missing.
C30_WriteLeavesOneBoard ==
    [][Written => /\ Parse(document') # ParseError
                  /\ document' = Stringify(Parse(document'))]_vars

\* C31: a drop moves a card and posts the mirror only for a card drag that
\* started after the previous drop, the previous drag end and the last
\* render: the dragged card's element, of class 'dragging', is still part
\* of the board when the drop acts.
C31_NoStaleDrag ==
    [][last'.op = "drop" => dragging # <<>>]_vars

\* the position (from 0) in the cards of column i of the first card other
\* than the dragged one whose center lies below y, their number when there
\* is none
FirstBelow(i, y) ==
    LET cards == state.columns[i].cards
        below == {k \in 1..Len(cards) :
                    cards[k].id # dragged.id /\ CenterOf(k) > y}
    IN IF below = {} THEN Len(cards)
       ELSE (CHOOSE k \in below : \A j \in below : k <= j) - 1

\* C32: while a card is dragged, the index column.ondrop computes for a
\* drop on any column at any point is the position of the first card of
\* that column, other than the dragged one, whose center lies below the
\* point, or the number of the column's cards when there is no such card.
C32_InsertionIndex ==
    (Rendered /\ dragged # Null /\ draggedType = "card")
    => \A i \in 1..Len(state.columns) :
       \A y \in DropPoints(Len(state.columns[i].cards)) :
           DropIndex(i, y) = FirstBelow(i, y)

\* a call without an index whose columns resolve and whose card is in the
\* source column
MovedWithoutIndex ==
    /\ Moved
    /\ last.toIndex = Undefined
    /\ FindIndex(last.before.columns, last.fromId) # NotFound
    /\ FindIndex(last.before.columns, last.toId) # NotFound
    /\ FindIndex(CardsIn(last.before, last.fromId), last.cardId) # NotFound

C34_CreateBoardKeepsExisting ==
    [][/\ (last'.op = "createWrite" /\ preview.exists)
          => document' = document
       /\ (last'.op = "name" /\ ~Truthy(last'.name))
          => /\ preview'.exists = preview.exists
             /\ document' = document
             /\ Len(preview'.calls) = Len(preview.calls) - 1]_vars

\* C35: with one card drop and nothing else under way, the update the drop
\* posts carries the Board the mirror shows after it, the write of that
\* update leaves the document holding exactly that Board, and the snapshot
\* that follows the write leaves the mirror as it is.
C35_OptimisticMoveAgrees ==
    [][/\ last'.op = "drop"
          => inbox' = <<[type |-> "update", data |-> state', seen |-> seen]>>
       /\ Written
          => /\ Parse(document') = state
             /\ document' = Stringify(state)
       /\ (toWebview # <<>> /\ toWebview' = Tail(toWebview))
          => /\ Head(toWebview).data = state
             /\ state' = state]_vars

\* the second card of column a was dropped at the top of column b, above
\* the card there; the update was written and its snapshot taken
C35_Witness ==
    /\ last.op = "snapshot"
    /\ version = 2
    /\ seen = 2
    /\ inbox = <<>>
    /\ Len(state.columns) = 2
    /\ state.columns[1].cards = <<SampleCards[1]>>
    /\ state.columns[2].cards = <<SampleCards[2], ExternalCard>>
    /\ state = Parse(document)

====
